---- MODULE Spec2Model ----
(***************************************************************************)
(* Watch-session continuity of openanime-cli: the persisted watch history  *)
(* (historyUtils.ts), the mpv progress script (mpv-progress.lua), the      *)
(* playback controller (player.ts) and the playback flow of the CLI        *)
(* (core/index.ts).                                                        *)
(*                                                                         *)
(* Times of the player (time-pos, duration) and its percentage are         *)
(* fractional numbers; the model counts them in HALVES (1 unit = 0.5), so  *)
(* math.floor is integer division by two and never the identity.  Values   *)
(* stored in files are whole numbers.  Timestamps are clock ticks,         *)
(* TicksPerSecond ticks to a second.                                       *)
(***************************************************************************)
EXTENDS Integers, Sequences, FiniteSets, TLC

\* ------------------------------------------------------------ bounds
MaxClock == 2
MaxLimit == 2

EpisodeCount == 2

\* 'disconnected' events of the presence client, and registrations of its
\* listeners.
MaxDisconnects == 3

MaxListeners == 6

\* ------------------------------------------------- program constants
HistoryCap == 50
SuggestionCap == 5
EstimatedDuration == 1440
EstimateCap == 99
AutoAdvanceThreshold == 85
TicksPerSecond == 2
maxConnectionAttempts == 5

\* ------------------------------------------------------------ helpers
Min(a, b) == IF a <= b THEN a ELSE b

Max(a, b) == IF a >= b THEN a ELSE b

Range(s) == {s[i] : i \in DOMAIN s}

Take(s, n) == SubSeq(s, 1, Min(n, Len(s)))

\* ------------------------------------------------- watch history file
\* WatchHistoryEntry.  animeTitle, animeSlug and episodeTitle are fixed by
\* the key in the catalog and are left out.
KeyOf(r) == <<r.animeId, r.seasonNumber, r.episodeNumber>>

Entry(key, fansub, at, progress, timePos, duration) ==
    [animeId |-> key[1], seasonNumber |-> key[2], episodeNumber |-> key[3],
     fansubName |-> fansub, watchedAt |-> at,
     progress |-> progress, timePos |-> timePos, duration |-> duration]

\* The history file: absent, a JSON array of entries, text that is no JSON
\* (a torn or damaged file), or JSON that is no array.
AbsentFile == [kind |-> "absent", recs |-> <<>>]

RecordsFile(recs) == [kind |-> "records", recs |-> recs]

UnparseableFile == [kind |-> "unparseable", recs |-> <<>>]

NonArrayFile == [kind |-> "nonarray", recs |-> <<>>]

\* Array.prototype.sort((a, b) => b.watchedAt - a.watchedAt): stable,
\* newest first.  Each step moves the first entry that is newer than the
\* one before it up to its place.
RECURSIVE SortByWatchedAtDesc(_)
SortByWatchedAtDesc(s) ==
    LET late == {i \in 2..Len(s) : s[i - 1].watchedAt < s[i].watchedAt}
        i == CHOOSE x \in late : \A y \in late : x <= y
        p == 1 + Cardinality({j \in 1..(i - 1) :
                                 s[j].watchedAt >= s[i].watchedAt})
    IN  IF late = {} THEN s
        ELSE SortByWatchedAtDesc(SubSeq(s, 1, p - 1) \o <<s[i]>>
                                 \o SubSeq(s, p, i - 1)
                                 \o SubSeq(s, i + 1, Len(s)))

\* An optional numeric argument: undefined, or a number.
Undefined == [given |-> FALSE, n |-> 0]

Num(n) == [given |-> TRUE, n |-> n]

\* JavaScript truthiness of an optional number.
Truthy(limit) == limit.given /\ limit.n # 0

\* limit ? processedHistory.slice(0, limit) : processedHistory
ApplyLimit(recs, limit) ==
    IF Truthy(limit) THEN Take(recs, limit.n) ELSE recs

\* The body of getWatchHistory's try block: what it returns, or that it
\* threw (JSON.parse on text that is no JSON, history.map on a value that is
\* no array).
LoadHistory(f, limit) ==
    CASE f.kind = "absent" -> [threw |-> FALSE, val |-> <<>>]
      [] f.kind = "unparseable" -> [threw |-> TRUE, val |-> <<>>]
      [] f.kind = "nonarray" -> [threw |-> TRUE, val |-> <<>>]
      [] OTHER -> [threw |-> FALSE,
                   val |-> ApplyLimit(SortByWatchedAtDesc(f.recs), limit)]

GetNoCatch(f, limit) == LoadHistory(f, limit)

\* getWatchHistory(limit?): the catch turns every throw into [].
getWatchHistory(f, limit) ==
    LET r == LoadHistory(f, limit)
    IN  IF r.threw THEN [threw |-> FALSE, val |-> <<>>] ELSE r

\* getLastWatchedAnime(): the head of getWatchHistory(1), or null (<<>>).
getLastWatchedAnime(f) ==
    LET r == getWatchHistory(f, Num(1))
    IN  [threw |-> r.threw, val |-> Take(r.val, 1)]

\* getAnimeWatchHistory(animeId)
getAnimeWatchHistory(f, animeId) ==
    LET r == getWatchHistory(f, Undefined)
    IN  [threw |-> r.threw,
         val |-> SelectSeq(r.val, LAMBDA e : e.animeId = animeId)]

\* history.findIndex(same key): 0 when there is none.
FindIndex(s, key) ==
    LET hits == {i \in DOMAIN s : KeyOf(s[i]) = key}
    IN  IF hits = {} THEN 0
        ELSE CHOOSE i \in hits : \A j \in hits : i <= j

RemoveAt(s, i) == SubSeq(s, 1, i - 1) \o SubSeq(s, i + 1, Len(s))

SaveNoRemove(f, entry) ==
    RecordsFile(Take(<<entry>> \o getWatchHistory(f, Undefined).val, HistoryCap))

SaveInFileOrder(f, entry) ==
    LET history == IF f.kind = "records" THEN f.recs ELSE <<>>
        i == FindIndex(history, KeyOf(entry))
        without == IF i > 0 THEN RemoveAt(history, i) ELSE history
    IN  RecordsFile(Take(<<entry>> \o without, HistoryCap))

SaveDropsLast(f, entry) ==
    LET history == getWatchHistory(f, Undefined).val
        i == FindIndex(history, KeyOf(entry))
        without == IF i > 0 THEN RemoveAt(history, i) ELSE history
    IN  RecordsFile(Take(<<entry>> \o without, Min(Len(without), HistoryCap)))

\* saveWatchHistory(entry): the file after the call.
saveWatchHistory(f, entry) ==
    LET history == getWatchHistory(f, Undefined).val
        i == FindIndex(history, KeyOf(entry))
        without == IF i > 0 THEN RemoveAt(history, i) ELSE history
    IN  RecordsFile(Take(<<entry>> \o without, HistoryCap))

ClearWritesEmpty(f) ==
    [file |-> IF f.kind # "absent" THEN RecordsFile(<<>>) ELSE f,
     threw |-> FALSE]

\* clearWatchHistory(): unlink when the file exists; the file after the
\* call, and whether the call threw.
clearWatchHistory(f) ==
    [file |-> IF f.kind # "absent" THEN AbsentFile ELSE f, threw |-> FALSE]

\* Map insertion order of the first entry seen per animeId.
FirstPerAnime(s) ==
    LET first == {i \in DOMAIN s :
                     \A j \in 1..(i - 1) : s[j].animeId # s[i].animeId}
        nth(k) == CHOOSE i \in first :
                      Cardinality({j \in first : j < i}) = k - 1
    IN  IF s = <<>> THEN <<>>
        ELSE [k \in 1..Cardinality(first) |-> s[nth(k)]]

SuggestNoDedupe(f) ==
    LET r == getWatchHistory(f, Undefined)
    IN  [threw |-> r.threw, val |-> Take(r.val, SuggestionCap)]

\* getContinueWatchingSuggestions()
getContinueWatchingSuggestions(f) ==
    LET r == getWatchHistory(f, Undefined)
    IN  [threw |-> r.threw,
         val |-> Take(FirstPerAnime(r.val), SuggestionCap)]

\* ------------------------------------------- IEEE 754 double arithmetic
\* JavaScript and Lua numbers are doubles: (a / b) * 100 is two operations,
\* each rounded to 53 significant bits (to nearest, ties to even).  A
\* positive double is [m, e]: its value is (1.m) * 2^e, where the 52 bits
\* after the leading one are four 13-bit limbs m[1..4], most significant
\* first, and e is the exponent of the leading bit.
LimbBase == 8192

RECURSIVE Pow2(_)
Pow2(k) == IF k = 0 THEN 1 ELSE 2 * Pow2(k - 1)

\* The significand plus one unit in the last place.
IncDouble(x) ==
    LET m == x.m
        c4 == IF m[4] + 1 = LimbBase THEN 1 ELSE 0
        c3 == IF m[3] + c4 = LimbBase THEN 1 ELSE 0
        c2 == IF m[2] + c3 = LimbBase THEN 1 ELSE 0
        c1 == IF m[1] + c2 = LimbBase THEN 1 ELSE 0
    IN  [m |-> <<(m[1] + c2) % LimbBase, (m[2] + c3) % LimbBase,
                 (m[3] + c4) % LimbBase, (m[4] + 1) % LimbBase>>,
         e |-> x.e + c1]

\* x truncated to 53 bits, rounded to nearest given the first dropped bit
\* (guard) and whether any later dropped bit is set (sticky); ties to even.
RoundNearestEven(x, guard, sticky) ==
    IF guard = 1 /\ (sticky \/ x.m[4] % 2 = 1) THEN IncDouble(x) ELSE x

\* n / d brought to d0 <= n0 < 2 * d0 with n / d = (n0 / d0) * 2^e.
RECURSIVE Normalize(_, _, _)
Normalize(n, d, e) ==
    IF n < d THEN Normalize(2 * n, d, e - 1)
    ELSE IF n >= 2 * d THEN Normalize(n, 2 * d, e + 1)
    ELSE [n |-> n, d |-> d, e |-> e]

\* The double n / d of two positive whole numbers (exact doubles
\* themselves): long division, 13 bits at a time.
DivDouble(n, d) ==
    LET z == Normalize(n, d, 0)
        r0 == z.n - z.d
        l1 == (r0 * LimbBase) \div z.d
        r1 == (r0 * LimbBase) % z.d
        l2 == (r1 * LimbBase) \div z.d
        r2 == (r1 * LimbBase) % z.d
        l3 == (r2 * LimbBase) \div z.d
        r3 == (r2 * LimbBase) % z.d
        l4 == (r3 * LimbBase) \div z.d
        r4 == (r3 * LimbBase) % z.d
        guard == IF 2 * r4 >= z.d THEN 1 ELSE 0
        sticky == 2 * r4 # z.d /\ r4 # 0
    IN  RoundNearestEven([m |-> <<l1, l2, l3, l4>>, e |-> z.e], guard, sticky)

\* The double x * c for a whole number c with 64 <= c < 128.
MulDouble(x, c) ==
    LET m == x.m
        p4 == m[4] * c
        p3 == (m[3] * c) + (p4 \div LimbBase)
        p2 == (m[2] * c) + (p3 \div LimbBase)
        p1 == (m[1] * c) + (p2 \div LimbBase)
        top == c + (p1 \div LimbBase)
        s == IF top >= 128 THEN 7 ELSE 6
        lo == Pow2(s)
        hi == Pow2(13 - s)
        n1 == ((top % lo) * hi) + ((p1 % LimbBase) \div lo)
        n2 == (((p1 % LimbBase) % lo) * hi) + ((p2 % LimbBase) \div lo)
        n3 == (((p2 % LimbBase) % lo) * hi) + ((p3 % LimbBase) \div lo)
        n4 == (((p3 % LimbBase) % lo) * hi) + ((p4 % LimbBase) \div lo)
        dropped == (p4 % LimbBase) % lo
        guard == IF dropped >= (lo \div 2) THEN 1 ELSE 0
        sticky == dropped % (lo \div 2) # 0
    IN  RoundNearestEven([m |-> <<n1, n2, n3, n4>>, e |-> x.e + s],
                         guard, sticky)

\* math.floor / Math.floor of a positive double below 8192.
FloorDouble(x) ==
    IF x.e < 0 THEN 0 ELSE Pow2(x.e) + (x.m[1] \div Pow2(13 - x.e))

\* Math.round of a positive double below 4096: to the nearest whole number,
\* a tie upwards.
RoundDouble(x) ==
    IF x.e < -1 THEN 0
    ELSE IF x.e = -1 THEN 1
    ELSE FloorDouble(x) + ((x.m[1] \div Pow2(12 - x.e)) % 2)

\* (n / d) * 100 as the program computes it: two rounded operations.
PercentDouble(n, d) == MulDouble(DivDouble(n, d), 100)

\* ------------------------------------------------ mpv progress script
\* os.date("!%Y-%m-%dT%H:%M:%S.000Z"): the time cut to whole seconds.
LuaStamp(now) == now - (now % TicksPerSecond)

\* Script options of one player process; anime_id is "" when the CLI had
\* no anime detail to pass.
ScriptOpts(key, fansub) ==
    [anime_id |-> key[1], season_number |-> key[2],
     episode_number |-> key[3], fansub_name |-> fansub]

OptsKey(opts) == <<opts.anime_id, opts.season_number, opts.episode_number>>

\* What update_history reads: the parsed array in file order, or {} when
\* the file is missing or does not parse.
LuaReadHistory(f) == IF f.kind = "records" THEN f.recs ELSE <<>>

\* update_history(time_pos, duration, percent_pos) with its arguments
\* already floored: the history file after the call.
update_history(f, opts, tp, dur, pct, now) ==
    LET history == LuaReadHistory(f)
        i == FindIndex(history, OptsKey(opts))
        new == Entry(OptsKey(opts), opts.fansub_name, LuaStamp(now),
                     pct, tp, dur)
    IN  IF opts.anime_id = "" THEN f
        ELSE IF i > 0
        THEN RecordsFile([history EXCEPT ![i].progress = pct,
                                         ![i].timePos = tp,
                                         ![i].duration = dur,
                                         ![i].watchedAt = LuaStamp(now)])
        ELSE RecordsFile(<<new>> \o history)

\* The progress file: absent, one snapshot, or text that is no JSON.
AbsentSnap == [kind |-> "absent"]

UnparseableSnap == [kind |-> "unparseable"]

Snapshot(tp, dur, pct, status, estimated) ==
    [kind |-> "snapshot", time_pos |-> tp, duration |-> dur,
     percent_pos |-> pct, status |-> status, estimated |-> estimated]

\* Live properties of the player, in halves: time-pos, duration, length,
\* percent-pos.
Live(event, t, d, len, p) ==
    [event |-> event, time_pos |-> t, duration |-> d, length |-> len,
     percent_pos |-> p]

\* math.floor of a number counted in halves.
Floor(h) == h \div 2

\* write_progress: the duration after the fallback to "length".
LiveDuration(live) ==
    IF live.duration = 0 THEN live.length ELSE live.duration

PercentNoCap(live) ==
    LET t == live.time_pos
        d == LiveDuration(live)
    IN  IF d = 0 /\ t > 0
        THEN FloorDouble(PercentDouble(t, 2 * EstimatedDuration))
        ELSE IF live.percent_pos = 0 /\ d > 0 /\ t > 0
        THEN FloorDouble(PercentDouble(t, d))
        ELSE Floor(live.percent_pos)

\* write_progress: math.floor(percent_pos) after the two fallbacks.  With
\* no duration the percentage is that of time_pos in an episode of
\* EstimatedDuration seconds, EstimateCap at most.
PercentWritten(live) ==
    LET t == live.time_pos
        d == LiveDuration(live)
    IN  IF d = 0 /\ t > 0
        THEN Min(FloorDouble(PercentDouble(t, 2 * EstimatedDuration)),
                 EstimateCap)
        ELSE IF live.percent_pos = 0 /\ d > 0 /\ t > 0
        THEN FloorDouble(PercentDouble(t, d))
        ELSE Floor(live.percent_pos)

\* write_progress(status): the snapshot it writes.
WrittenSnapshot(live, status) ==
    Snapshot(Floor(live.time_pos), Floor(LiveDuration(live)),
             PercentWritten(live), status,
             LiveDuration(live) = 0 /\ live.time_pos > 0)

FinalNoFallback(live, prior) ==
    Snapshot(Floor(live.time_pos), Floor(live.duration),
             IF live.percent_pos = 0 /\ live.duration > 0 /\ live.time_pos > 0
             THEN FloorDouble(PercentDouble(live.time_pos, live.duration))
             ELSE Floor(live.percent_pos),
             "finished", FALSE)

\* The shutdown handler: the snapshot it writes over the prior one.  The
\* prior snapshot is read only when the live time or duration is zero.
FinalSnapshot(live, prior) ==
    LET zero == live.time_pos = 0 \/ live.duration = 0
        read == zero /\ prior.kind = "snapshot"
        t == IF read THEN Max(live.time_pos, 2 * prior.time_pos)
             ELSE live.time_pos
        d == IF read THEN Max(live.duration, 2 * prior.duration)
             ELSE live.duration
        p == IF read /\ live.percent_pos = 0 THEN 2 * prior.percent_pos
             ELSE live.percent_pos
    IN  Snapshot(Floor(t), Floor(d),
                 IF p = 0 /\ d > 0 /\ t > 0
                 THEN FloorDouble(PercentDouble(t, d)) ELSE Floor(p),
                 "finished", FALSE)

WatchedResult == [progress |-> 100, timePos |-> 0, duration |-> 0]

\* -------------------------------------------------- playback controller
ZeroResult == [progress |-> 0, timePos |-> 0, duration |-> 0]

ReadWatchedOnFailure(sn) ==
    IF sn.kind # "snapshot" THEN WatchedResult
    ELSE [progress |-> sn.percent_pos, timePos |-> sn.time_pos,
          duration |-> sn.duration]

\* The 'close' handler of playVideo: the result read from the progress
\* file.  Math.round leaves the whole numbers of a snapshot as they are.
ReadResult(sn) ==
    IF sn.kind # "snapshot" THEN ZeroResult
    ELSE [progress |-> IF sn.duration > 0 /\ sn.time_pos > 0
                       THEN RoundDouble(PercentDouble(sn.time_pos, sn.duration))
                       ELSE sn.percent_pos,
          timePos |-> sn.time_pos,
          duration |-> sn.duration]

\* ------------------------------------------------------------- state
VARIABLES
    file,      \* the watch history file
    clock,     \* the time, in ticks
    ret,       \* what the last query of the history returned
    written,   \* per key, the field values of the last write of that key
    lastOp,    \* the last operation on the history file
    snap,      \* the progress file
    player,    \* the player process: "none", "running", "exited"
    opts,      \* the script options of the player process
    live,      \* the live properties the player script read last
    result,    \* the PlaybackResult of the last playVideo call
    pc,        \* where the CLI is
    cur,       \* the episode that handleEpisodeSelection was called with
    ctx,       \* what handleVideoPlayback fetched before its prompt
    decision,  \* the last auto-advance decision
    appConfig, \* the configuration that getConfig returns
    menu,      \* the menu shown last: its choices and its history entry
    call,      \* the course of the last playVideo call
    log,       \* the saveToHistory calls of the handleVideoPlayback in course
    discordRPC \* the presence client of the CLI process

historyVars == <<file, clock, written, lastOp>>

playerVars == <<snap, player, opts, live, result, call>>

cliVars == <<pc, cur, ctx, decision, appConfig, menu, log, discordRPC>>

vars == <<file, clock, ret, written, lastOp,
          snap, player, opts, live, result, call,
          pc, cur, ctx, decision, appConfig, menu, log, discordRPC>>

\* ------------------------------------------------ contents of a store
\* A full store, as HistoryCap earlier sessions leave it: episodes of seven
\* titles, all older than the clock, the newest first.
FillerAnimeIds == <<"t1", "t2", "t3", "t4", "t5", "t6", "t7">>

FillerKey(i) ==
    <<FillerAnimeIds[((i - 1) % Len(FillerAnimeIds)) + 1], 1,
      ((i - 1) \div Len(FillerAnimeIds)) + 1>>

FillerEntry(i) == Entry(FillerKey(i), "fs1", 0 - i, 100, 1400, 1440)

FillerRecs == [i \in 1..HistoryCap |-> FillerEntry(i)]

NoWrites == [k \in {} |-> 0]

NoRet == [op |-> "none", arg |-> Undefined, val |-> <<>>, threw |-> FALSE]

NoOp == [op |-> "none", key |-> <<>>]

NoLive == Live("none", 0, 0, 0, 0)

\* No playVideo call yet: how the call went ("unavailable": no player
\* found; "error": the child could not be started; "waiting": the child
\* runs; "closed": the child has closed), whether a player ran in the
\* child, the exit code, the number of times the call has looked at the
\* progress file, and the --start option of the command.
NoCall == [outcome |-> "none", ran |-> FALSE, code |-> 0, reads |-> 0,
           start |-> Undefined]

\* No player process, and nothing left by an earlier one.
NoPlayer ==
    /\ snap = AbsentSnap
    /\ player = "none"
    /\ opts = ScriptOpts(<<"", 0, 0>>, "")
    /\ live = NoLive
    /\ result = ZeroResult
    /\ call = NoCall

\* The arguments of a handleEpisodeSelection call, the fansub that it
\* settles on, and the place of the call.
Episode(n, startTime, via) ==
    [episode |-> n, fansub |-> "", startTime |-> startTime, via |-> via]

NoEpisode == Episode(0, Undefined, "none")

\* getConfig(): always the default configuration.
DefaultConfig == [autoPlayNextEpisode |-> TRUE, enableHistory |-> TRUE]

getConfig == DefaultConfig

NoEntry == Entry(<<"", 0, 0>>, "", 0, 0, 0, 0)

NoMenu == [shown |-> "none", choices |-> {}, entry |-> NoEntry]

\* One saveToHistory call: its arguments, whether it came to write, and
\* where handleVideoPlayback was.
SaveCall(progress, timePos, duration, wrote, at) ==
    [progress |-> progress, timePos |-> timePos, duration |-> duration,
     wrote |-> wrote, at |-> at]

NoContext == [animeDetail |-> FALSE, episodeDetail |-> FALSE,
              hasNextEpisode |-> FALSE]

NoDecision == [made |-> FALSE, episode |-> 0, progress |-> 0,
               listed |-> FALSE, advanced |-> FALSE]

\* The presence client before connect(): the fields connected and
\* connectionAttempts of DiscordRPC; how many times setupEventHandlers has
\* registered its listeners on the client; the logins in flight; the
\* retry timers of login failures; and per 'disconnected' event, the
\* timers that its listeners have set and are yet to fire, and the
\* connect() calls that its timers have made.
NoPresence ==
    [started |-> FALSE, connected |-> FALSE, connectionAttempts |-> 0,
     listeners |-> 0, logins |-> 0, retries |-> 0,
     timers |-> <<>>, calls |-> <<>>]

\* The CLI is not in the playback flow.
NoCli ==
    /\ pc = "idle"
    /\ cur = NoEpisode
    /\ ctx = NoContext
    /\ decision = NoDecision
    /\ appConfig = getConfig
    /\ discordRPC = NoPresence
    /\ menu = NoMenu
    /\ log = <<>>

\* ------------------------------------- the history API, called freely
\* Arguments of the calls.
HistoryKeys == {<<"a", 1, 1>>, FillerKey(HistoryCap)}

HistoryFansubs == {"fs1", "fs2"}

\* progress, timePos, duration
HistoryValues == {<<0, 0, 0>>, <<50, 720, 1440>>}

Limits == {Undefined} \cup {Num(n) : n \in 0..MaxLimit}

InitHistory ==
    /\ \/ file = AbsentFile /\ written = NoWrites
       \/ file = RecordsFile(FillerRecs) /\ written = NoWrites
       \/ file = UnparseableFile /\ written = NoWrites
       \/ file = NonArrayFile /\ written = NoWrites
    /\ clock = 0
    /\ ret = NoRet
    /\ lastOp = NoOp
    /\ NoPlayer
    /\ NoCli

\* Time passes while the CLI waits: for a call, or for its player.
Tick ==
    /\ clock < MaxClock
    /\ pc \in {"idle", "playing"}
    /\ clock' = clock + 1
    /\ UNCHANGED <<file, ret, written, lastOp>>
    /\ UNCHANGED <<playerVars, cliVars>>

Record(w, key, fields) ==
    [k \in DOMAIN w \cup {key} |-> IF k = key THEN fields ELSE w[k]]

\* saveWatchHistory(entry) with watchedAt: new Date()
CallSave ==
    \E key \in HistoryKeys, fs \in HistoryFansubs, v \in HistoryValues :
        LET entry == Entry(key, fs, clock, v[1], v[2], v[3])
        IN  /\ file' = saveWatchHistory(file, entry)
            /\ written' = Record(written, key, entry)
            /\ lastOp' = [op |-> "save", key |-> key]
            /\ ret' = NoRet
            /\ UNCHANGED clock
            /\ UNCHANGED <<playerVars, cliVars>>

\* One update_history call of a player process.  A file holding JSON that
\* is no array either reads as an empty table or stops the script with an
\* error before it writes, depending on the JSON value.
CallLuaUpdate ==
    \E key \in HistoryKeys, fs \in HistoryFansubs, v \in HistoryValues :
        /\ ret' = NoRet
        /\ UNCHANGED clock
        /\ UNCHANGED <<playerVars, cliVars>>
        /\ \/ /\ file' = update_history(file, ScriptOpts(key, fs),
                                       v[2], v[3], v[1], clock)
              /\ written' = Record(written, key,
                                   [progress |-> v[1], timePos |-> v[2],
                                    duration |-> v[3],
                                    watchedAt |-> LuaStamp(clock)])
              /\ lastOp' = [op |-> "lua", key |-> key]
           \/ /\ file.kind = "nonarray"
              /\ UNCHANGED <<file, written>>
              /\ lastOp' = [op |-> "luaerror", key |-> key]

CallClear ==
    /\ file' = clearWatchHistory(file).file
    /\ lastOp' = [op |-> "clear", key |-> <<>>]
    /\ ret' = [op |-> "clear", arg |-> Undefined, val |-> <<>>,
               threw |-> clearWatchHistory(file).threw]
    /\ UNCHANGED <<clock, written>>
    /\ UNCHANGED <<playerVars, cliVars>>

Returned(op, arg, r) ==
    [op |-> op, arg |-> arg, val |-> r.val, threw |-> r.threw]

CallList ==
    \E limit \in Limits :
        /\ ret' = Returned("list", limit, getWatchHistory(file, limit))
        /\ UNCHANGED historyVars
        /\ UNCHANGED <<playerVars, cliVars>>

CallMostRecent ==
    /\ ret' = Returned("mostRecent", Undefined, getLastWatchedAnime(file))
    /\ UNCHANGED historyVars
    /\ UNCHANGED <<playerVars, cliVars>>

CallSuggestions ==
    /\ ret' = Returned("suggestions", Undefined,
                       getContinueWatchingSuggestions(file))
    /\ UNCHANGED historyVars
    /\ UNCHANGED <<playerVars, cliVars>>

NextHistory ==
    \/ Tick
    \/ CallSave
    \/ CallLuaUpdate
    \/ CallClear

SpecHistory == InitHistory /\ [][NextHistory]_vars

\* ------------------------------ a kill during a write of the history
\* fs.writeFileSync(HISTORY_FILE, text) and io.open(history_file, "w")
\* followed by file:write(text) open the file itself, cut to length zero,
\* and write the text into it.  A process killed during the call leaves
\* the file as it was (killed before the open), the whole text (killed
\* after the last byte), or the empty file or a proper prefix of the text,
\* neither of which is JSON.
KilledWrite(before, after) == {before, UnparseableFile, after}

\* The CLI is killed inside saveWatchHistory(entry).
SaveKilled ==
    \E key \in HistoryKeys, fs \in HistoryFansubs, v \in HistoryValues :
        LET entry == Entry(key, fs, clock, v[1], v[2], v[3])
            after == saveWatchHistory(file, entry)
        IN  /\ file' \in KilledWrite(file, after)
            /\ written' = IF file' = after THEN Record(written, key, entry)
                          ELSE written
            /\ lastOp' = [op |-> "savekilled", key |-> key]
            /\ ret' = NoRet
            /\ UNCHANGED clock
            /\ UNCHANGED <<playerVars, cliVars>>

\* The player process is killed inside update_history.
LuaKilled ==
    \E key \in HistoryKeys, fs \in HistoryFansubs, v \in HistoryValues :
        LET after == update_history(file, ScriptOpts(key, fs),
                                    v[2], v[3], v[1], clock)
        IN  /\ file' \in KilledWrite(file, after)
            /\ written' = IF file' = after
                          THEN Record(written, key,
                                      [progress |-> v[1], timePos |-> v[2],
                                       duration |-> v[3],
                                       watchedAt |-> LuaStamp(clock)])
                          ELSE written
            /\ lastOp' = [op |-> "luakilled", key |-> key]
            /\ ret' = NoRet
            /\ UNCHANGED clock
            /\ UNCHANGED <<playerVars, cliVars>>

NextCrash ==
    \/ CallSave
    \/ CallClear
    \/ SaveKilled
    \/ LuaKilled

SpecCrash == InitHistory /\ [][NextCrash]_vars

\* --------------------------------------- the queries, on given stores
QueryKeys == {<<"a", 1, 1>>, <<"a", 1, 2>>, <<"b", 1, 1>>}

QueryRecs ==
    {Entry(k, "fs1", at, 50, 720, 1440) : k \in QueryKeys, at \in 0..MaxClock}

\* Stores of up to one record per key, in any file order (the player script
\* updates watchedAt in place, so file order need not be newest first).
SmallStores ==
    {s \in UNION {[1..n -> QueryRecs] : n \in 0..Cardinality(QueryKeys)} :
        \A i, j \in DOMAIN s : KeyOf(s[i]) = KeyOf(s[j]) => i = j}

\* The full store, and the full store after the player script restamped
\* one of its records in place.
LargeStores ==
    {FillerRecs} \cup
    {[FillerRecs EXCEPT ![i].watchedAt = at] :
        i \in {2, 9, HistoryCap}, at \in 0..MaxClock}

QueryFiles ==
    {AbsentFile, UnparseableFile, NonArrayFile}
    \cup {RecordsFile(s) : s \in SmallStores \cup LargeStores}

InitQuery ==
    /\ file \in QueryFiles
    /\ written = NoWrites
    /\ clock = 0
    /\ ret = NoRet
    /\ lastOp = NoOp
    /\ NoPlayer
    /\ NoCli

NextQuery ==
    \/ CallList
    \/ CallMostRecent
    \/ CallSuggestions

SpecQuery == InitQuery /\ [][NextQuery]_vars

\* ------------------------------------------------ the player process
\* The status of each event that calls write_progress: the periodic timer,
\* the timeout after file-loaded, metadata-update, playback-restart, and
\* the observer of "duration".
Statuses == {"playing", "started", "metadata_ready", "restarted",
             "duration_detected"}

\* The id of the anime in the catalog, and the key of its episode n.
AnimeId == "a"

EpisodeKey(n) == <<AnimeId, 1, n>>

\* One write_progress(status) call: the properties it reads, the snapshot
\* it writes, and the update_history call that ends it.  The observer of
\* "duration" calls only for a positive duration.
WriteProgress(Events, Times, Durations, Lengths, Percents) ==
    /\ player = "running"
    /\ \E status \in Events, t \in Times, d \in Durations,
          len \in Lengths, p \in Percents :
          LET lv == Live("write", t, d, len, p)
              sn == WrittenSnapshot(lv, status)
          IN  /\ status = "duration_detected" => d > 0
              /\ live' = lv
              /\ snap' = sn
              /\ \/ /\ file' = update_history(file, opts, sn.time_pos,
                                              sn.duration, sn.percent_pos,
                                              clock)
                    /\ lastOp' = IF opts.anime_id = "" THEN lastOp
                                 ELSE [op |-> "lua", key |-> OptsKey(opts)]
                 \/ /\ file.kind = "nonarray"
                    /\ UNCHANGED <<file, lastOp>>
    /\ UNCHANGED <<clock, ret, written, player, opts, result, call>>
    /\ UNCHANGED cliVars

\* The player quits: the shutdown handler writes the final snapshot, and
\* the process exits.
PlayerShutdown(Times, Durations, Percents) ==
    /\ player = "running"
    /\ \E t \in Times, d \in Durations, p \in Percents :
          LET lv == Live("shutdown", t, d, 0, p)
          IN  /\ live' = lv
              /\ snap' = FinalSnapshot(lv, snap)
    /\ player' = "exited"
    /\ UNCHANGED <<historyVars, ret, opts, result, call>>
    /\ UNCHANGED cliVars

\* The player process is killed: it exits and no handler runs.
PlayerKilled ==
    /\ player = "running"
    /\ player' = "exited"
    /\ UNCHANGED <<historyVars, ret, snap, opts, live, result, call>>
    /\ UNCHANGED cliVars

\* The player process is killed while write_progress or the shutdown
\* handler rewrites the progress file: io.open(progress_file, "w") has
\* emptied the file and the text in it is incomplete.
PlayerKilledWriting ==
    /\ player = "running"
    /\ snap' = UnparseableSnap
    /\ live' = [live EXCEPT !.event = "killed"]
    /\ player' = "exited"
    /\ UNCHANGED <<historyVars, ret, opts, result, call>>
    /\ UNCHANGED cliVars

\* The exit codes of the child: 0, and 1 for every other code.
ExitCodes == {0, 1}

CloseZeroOnFailure(sn, code) ==
    IF code = 0 THEN ReadResult(sn) ELSE ZeroResult

\* What the 'close' handler leaves in finalProgress, finalTimePos and
\* finalDuration for an exit code: it reads the progress file first and
\* looks at the code only to print it.
CloseResult(sn, code) == ReadResult(sn)

PlayerPolled(Codes) ==
    /\ player \in {"running", "exited"}
    /\ pc = "playing"
    /\ \E code \in Codes :
          /\ result' = CloseResult(snap, code)
          /\ call' = [call EXCEPT !.code = code, !.reads = @ + 1,
                                  !.outcome = IF player = "exited"
                                              THEN "closed" ELSE @]
    /\ player' = IF player = "exited" THEN "none" ELSE player
    /\ pc' = IF player = "exited" THEN "played" ELSE pc
    /\ UNCHANGED <<historyVars, ret, snap, opts, live>>
    /\ UNCHANGED <<cur, ctx, decision, appConfig, discordRPC, menu, log>>

PlayerDetached(Codes) ==
    /\ player \in {"running", "exited"}
    /\ pc = "playing"
    /\ \E code \in Codes :
          /\ result' = CloseResult(snap, code)
          /\ call' = [call EXCEPT !.outcome = "closed", !.code = code,
                                  !.reads = @ + 1]
    /\ player' = IF player = "exited" THEN "none" ELSE player
    /\ pc' = "played"
    /\ UNCHANGED <<historyVars, ret, snap, opts, live>>
    /\ UNCHANGED <<cur, ctx, decision, appConfig, discordRPC, menu, log>>

\* The 'close' event of the child in playVideo, which resolves the wait:
\* playVideo returns what the handler read.  A child whose shell found no
\* player to run closes with a code other than 0.
PlayerClosed(Codes) ==
    /\ player = "exited"
    /\ pc = "playing"
    /\ \E code \in (IF call.ran THEN Codes ELSE {1}) :
          /\ result' = CloseResult(snap, code)
          /\ call' = [call EXCEPT !.outcome = "closed", !.code = code,
                                  !.reads = @ + 1]
    /\ player' = "none"
    /\ pc' = "played"
    /\ UNCHANGED <<historyVars, ret, snap, opts, live>>
    /\ UNCHANGED <<cur, ctx, decision, appConfig, discordRPC, menu, log>>

\* ---------------------------------- the player and the close handler
\* Properties in halves of a second and of a percent.
BridgeTimes == {0, 1, 29, 2 * 23, 2 * 300, 2 * 600, 2 * 720, 2 * 1500}

BridgeDurations == {0, 2 * 40, 2 * 1440}

BridgeLengths == {0, 2 * 1440}

BridgePercents == {0, 2 * 30}

BridgeSnapshots ==
    {AbsentSnap, UnparseableSnap,
     Snapshot(600, 1440, 41, "playing", FALSE),
     Snapshot(1400, 1440, 97, "finished", FALSE)}

\* playVideo has started a player for an episode; the progress file is as
\* an earlier session left it.
InitBridge ==
    /\ file = AbsentFile
    /\ written = NoWrites
    /\ clock = 0
    /\ ret = NoRet
    /\ lastOp = NoOp
    /\ snap \in BridgeSnapshots
    /\ player = "running"
    /\ opts = ScriptOpts(EpisodeKey(1), "fs1")
    /\ live = NoLive
    /\ result = ZeroResult
    /\ call = [NoCall EXCEPT !.outcome = "waiting", !.ran = TRUE]
    /\ pc = "playing"
    /\ cur = [Episode(1, Undefined, "select") EXCEPT !.fansub = "fs1"]
    /\ ctx = [animeDetail |-> TRUE, episodeDetail |-> TRUE,
              hasNextEpisode |-> TRUE]
    /\ decision = NoDecision
    /\ appConfig = getConfig
    /\ discordRPC = NoPresence
    /\ menu = NoMenu
    /\ log = <<SaveCall(0, 0, 0, FALSE, "prompt")>>

NextBridge ==
    \/ WriteProgress(Statuses, BridgeTimes, BridgeDurations, BridgeLengths,
                     BridgePercents)
    \/ PlayerShutdown(BridgeTimes, BridgeDurations, BridgePercents)
    \/ PlayerKilled
    \/ PlayerKilledWriting
    \/ PlayerClosed(ExitCodes)

SpecBridge == InitBridge /\ [][NextBridge]_vars

\* ------------------------------------------ the wait and the interrupt
\* The SIGINT handler of the CLI while playVideo waits for the child:
\* discordRPC.disconnect(), then process.exit(0).  It makes no call of
\* saveToHistory and does not touch the history file or the child.
Interrupt ==
    /\ pc = "playing"
    /\ pc' = "terminated"
    /\ UNCHANGED <<historyVars, ret, playerVars>>
    /\ UNCHANGED <<cur, ctx, decision, appConfig, discordRPC, menu, log>>

\* The player reports no length and no percentage of its own.
InterruptLengths == {0}

InterruptPercents == {0}

NextInterrupt ==
    \/ WriteProgress(Statuses, BridgeTimes, BridgeDurations,
                     InterruptLengths, InterruptPercents)
    \/ PlayerShutdown(BridgeTimes, BridgeDurations, InterruptPercents)
    \/ PlayerKilled
    \/ PlayerClosed(ExitCodes)
    \/ Interrupt

SpecInterrupt == InitBridge /\ [][NextInterrupt]_vars

\* ------------------------------------------------- the playback flow
\* The fansubs of an episode in the catalog.
Fansubs == {"fs1"}

\* getAnimeEpisodes: the episode numbers of the season, none when the
\* fetch of the anime detail fails.
getAnimeEpisodes(fetched) == IF fetched THEN 1..EpisodeCount ELSE {}

SaveAsWatched(f, episode, fansub, progress, timePos, duration, now) ==
    saveWatchHistory(f, Entry(EpisodeKey(episode), fansub, now, 100,
                              Max(0, timePos), Max(0, duration)))

SaveOnlyProgress(f, episode, fansub, progress, timePos, duration, now) ==
    IF progress = 0 THEN f
    ELSE saveWatchHistory(f, Entry(EpisodeKey(episode), fansub, now,
                                   Max(0, Min(100, progress)),
                                   Max(0, timePos), Max(0, duration)))

\* saveToHistory, once both of its fetches have succeeded: the history
\* file after saveWatchHistory of the entry it builds.
saveToHistory(f, episode, fansub, progress, timePos, duration, now) ==
    saveWatchHistory(f, Entry(EpisodeKey(episode), fansub, now,
                              Max(0, Min(100, progress)),
                              Max(0, timePos), Max(0, duration)))

\* The script options playVideo passes on: those of the episode when
\* handleVideoPlayback had the anime detail, the defaults otherwise.
PlayOptions(episode, context) ==
    IF context.animeDetail
    THEN ScriptOpts(EpisodeKey(episode.episode),
                    IF context.episodeDetail THEN episode.fansub
                    ELSE "Unknown")
    ELSE ScriptOpts(<<"", 0, 0>>, "")

AdvanceAtAnyProgress(config, playbackResult, context) ==
    /\ config.autoPlayNextEpisode
    /\ context.episodeDetail
    /\ context.hasNextEpisode

\* The condition of handleVideoPlayback for going on to the next episode.
ShouldAdvance(config, playbackResult, context) ==
    /\ config.autoPlayNextEpisode
    /\ playbackResult.progress >= AutoAdvanceThreshold
    /\ context.episodeDetail
    /\ context.hasNextEpisode

\* handleSeasonSelection: the user picks an episode of the season.
SelectEpisode ==
    /\ pc = "select"
    /\ \E n \in 1..EpisodeCount :
          cur' = Episode(n, Undefined, "select")
    /\ pc' = "episode"
    /\ UNCHANGED <<historyVars, ret, playerVars, ctx, decision>>
    /\ UNCHANGED <<appConfig, discordRPC, menu, log>>

\* handleEpisodeSelection: it returns when the episode detail is not to be
\* had, when there is no fansub, or when the user picks none; else it
\* calls handleVideoPlayback with a fansub.
HandleEpisodeSelection ==
    /\ pc = "episode"
    /\ \/ pc' = "done" /\ UNCHANGED cur
       \/ \E fs \in Fansubs :
             /\ cur' = [cur EXCEPT !.fansub = fs]
             /\ pc' = "video"
    /\ UNCHANGED <<historyVars, ret, playerVars, ctx, decision>>
    /\ UNCHANGED <<appConfig, discordRPC, menu, log>>

\* handleVideoPlayback up to its prompt: it returns without a video URL;
\* else it fetches the anime detail and the episode detail, either of
\* which may come back null.
HandleVideoPlayback ==
    /\ pc = "video"
    /\ \/ pc' = "done" /\ UNCHANGED ctx
       \/ \E animeDetail \in BOOLEAN, episodeDetail \in BOOLEAN :
             /\ ctx' = [animeDetail |-> animeDetail,
                        episodeDetail |-> episodeDetail,
                        hasNextEpisode |-> episodeDetail
                                           /\ cur.episode < EpisodeCount]
             /\ pc' = "prompt"
    /\ log' = <<>>
    /\ UNCHANGED <<historyVars, ret, playerVars, cur, decision>>
    /\ UNCHANGED <<appConfig, discordRPC, menu>>

\* if (startTime) playOptions.startTime = startTime
PlayStart(startTime) == IF Truthy(startTime) THEN startTime ELSE Undefined

StartAlways(startTime) == Num(startTime.n)

\* if (options.startTime) mpvCommand += ' --start=...'
StartOption(startTime) == IF Truthy(startTime) THEN startTime ELSE Undefined

\* The choice 'play', up to the wait for the child: the initial
\* saveToHistory (which returns early when one of its own fetches fails),
\* then playVideo.  playVideo returns a zero result at once when it finds
\* no player; else it builds the command and starts a child for it.  The
\* child cannot be started ('error', and a zero result), or it runs the
\* player, or its shell finds no player to run any more and exits.
ChoosePlay ==
    /\ pc = "prompt"
    /\ \E saved \in BOOLEAN :
          /\ file' = IF saved
                     THEN saveToHistory(file, cur.episode, cur.fansub,
                                        0, 0, 0, clock)
                     ELSE file
          /\ lastOp' = IF saved
                       THEN [op |-> "save", key |-> EpisodeKey(cur.episode)]
                       ELSE lastOp
          /\ log' = Append(log, SaveCall(0, 0, 0, saved, pc))
    /\ LET start == StartOption(PlayStart(cur.startTime))
       IN  \/ /\ call' = [NoCall EXCEPT !.outcome = "unavailable"]
              /\ result' = ZeroResult
              /\ pc' = "played"
              /\ UNCHANGED <<player, opts, live>>
           \/ /\ call' = [NoCall EXCEPT !.outcome = "error",
                                        !.start = start]
              /\ result' = ZeroResult
              /\ pc' = "played"
              /\ UNCHANGED <<player, opts, live>>
           \/ /\ call' = [NoCall EXCEPT !.outcome = "waiting",
                                        !.ran = TRUE, !.start = start]
              /\ player' = "running"
              /\ opts' = PlayOptions(cur, ctx)
              /\ live' = NoLive
              /\ pc' = "playing"
              /\ UNCHANGED result
           \/ /\ call' = [NoCall EXCEPT !.outcome = "waiting",
                                        !.start = start]
              /\ player' = "exited"
              /\ opts' = PlayOptions(cur, ctx)
              /\ live' = NoLive
              /\ pc' = "playing"
              /\ UNCHANGED result
    /\ UNCHANGED <<clock, written, ret, snap>>
    /\ UNCHANGED <<cur, ctx, decision, appConfig, discordRPC, menu>>

\* The choice 'copy': saveToHistory(slug, episode, fansubId, 100, 0, 0).
ChooseCopy ==
    /\ pc = "prompt"
    /\ \E saved \in BOOLEAN :
          /\ file' = IF saved
                     THEN saveToHistory(file, cur.episode, cur.fansub,
                                        100, 0, 0, clock)
                     ELSE file
          /\ lastOp' = IF saved
                       THEN [op |-> "save", key |-> EpisodeKey(cur.episode)]
                       ELSE lastOp
          /\ log' = Append(log, SaveCall(100, 0, 0, saved, pc))
    /\ pc' = "done"
    /\ UNCHANGED <<clock, written, ret, playerVars>>
    /\ UNCHANGED <<cur, ctx, decision, appConfig, discordRPC, menu>>

\* The choices 'download' and 'browser', and no choice: no history write.
ChooseOther ==
    /\ pc = "prompt"
    /\ pc' = "done"
    /\ UNCHANGED <<historyVars, ret, playerVars, cur, ctx, decision>>
    /\ UNCHANGED <<appConfig, discordRPC, menu, log>>

AfterPlaybackRepeats ==
    /\ pc = "played"
    /\ \E saved \in BOOLEAN :
          /\ file' = IF saved
                     THEN saveToHistory(file, cur.episode, cur.fansub,
                                        result.progress, result.timePos,
                                        result.duration, clock)
                     ELSE file
          /\ lastOp' = IF saved
                       THEN [op |-> "save", key |-> EpisodeKey(cur.episode)]
                       ELSE lastOp
          /\ log' = Append(log, SaveCall(result.progress, result.timePos,
                                         result.duration, saved, pc))
    /\ \E listed \in BOOLEAN :
          LET found == ShouldAdvance(appConfig, result, ctx)
                       /\ cur.episode + 1 \in getAnimeEpisodes(listed)
          IN  /\ decision' = [made |-> TRUE, episode |-> cur.episode,
                              progress |-> result.progress,
                              listed |-> listed, advanced |-> found]
              /\ IF found
                 THEN /\ cur' = Episode(cur.episode, Undefined, "auto")
                      /\ pc' = "episode"
                 ELSE /\ pc' = "done"
                      /\ UNCHANGED cur
    /\ result' = ZeroResult
    /\ call' = NoCall
    /\ UNCHANGED <<clock, written, ret, snap, player, opts, live, ctx>>
    /\ UNCHANGED <<appConfig, discordRPC, menu>>

\* handleVideoPlayback after playVideo: the final saveToHistory, then the
\* decision to go on to the next episode of the season.
AfterPlayback ==
    /\ pc = "played"
    /\ \E saved \in BOOLEAN :
          /\ file' = IF saved
                     THEN saveToHistory(file, cur.episode, cur.fansub,
                                        result.progress, result.timePos,
                                        result.duration, clock)
                     ELSE file
          /\ lastOp' = IF saved
                       THEN [op |-> "save", key |-> EpisodeKey(cur.episode)]
                       ELSE lastOp
          /\ log' = Append(log, SaveCall(result.progress, result.timePos,
                                         result.duration, saved, pc))
    /\ \E listed \in BOOLEAN :
          LET found == ShouldAdvance(appConfig, result, ctx)
                       /\ cur.episode + 1 \in getAnimeEpisodes(listed)
          IN  /\ decision' = [made |-> TRUE, episode |-> cur.episode,
                              progress |-> result.progress,
                              listed |-> listed, advanced |-> found]
              /\ IF found
                 THEN /\ cur' = Episode(cur.episode + 1, Undefined, "auto")
                      /\ pc' = "episode"
                 ELSE /\ pc' = "done"
                      /\ UNCHANGED cur
    /\ result' = ZeroResult
    /\ call' = NoCall
    /\ UNCHANGED <<clock, written, ret, snap, player, opts, live, ctx>>
    /\ UNCHANGED <<appConfig, discordRPC, menu>>

\* ------------------------------------------------------- the menus
\* getWatchHistory(5) in showMainMenu, getWatchHistory(10) in
\* showWatchHistory, and the bound on progress for 'resume'.
RecentLimit == 5

HistoryListLimit == 10

ResumeBelow == 90

MenuAlwaysFull(f, conf) == {"continue", "history", "clear-history", "search"}

\* The choices that showMainMenu builds: 'continue' with a last watched
\* entry, 'history' and 'clear-history' with a recent history, 'search'
\* always.  It does not read the configuration.
MainMenuChoices(f, conf) ==
    (IF getLastWatchedAnime(f).val # <<>> THEN {"continue"} ELSE {})
    \cup (IF Len(getWatchHistory(f, Num(RecentLimit)).val) > 0
          THEN {"history", "clear-history"} ELSE {})
    \cup {"search"}

ContinueByProgress(entry) ==
    (IF entry.progress < ResumeBelow THEN {"resume"} ELSE {})
    \cup {"next", "rewatch", "choose"}

ContinueBelowAdvance(entry) ==
    (IF entry.timePos # 0 /\ entry.duration # 0
        /\ entry.progress < AutoAdvanceThreshold
     THEN {"resume"} ELSE {})
    \cup {"next", "rewatch", "choose"}

\* The choices that continuePreviousWatch builds for an entry.
ContinueChoices(entry) ==
    (IF entry.timePos # 0 /\ entry.duration # 0
        /\ entry.progress < ResumeBelow
     THEN {"resume"} ELSE {})
    \cup {"next", "rewatch", "choose"}

\* continuePreviousWatch(entry) up to its prompt.
ContinueMenu(entry) ==
    [shown |-> "continue", choices |-> ContinueChoices(entry),
     entry |-> entry]

\* The program is started without arguments: showMainMenu up to its prompt.
ShowMainMenu ==
    /\ pc = "start"
    /\ menu' = [shown |-> "main",
                choices |-> MainMenuChoices(file, appConfig),
                entry |-> IF getLastWatchedAnime(file).val # <<>>
                          THEN getLastWatchedAnime(file).val[1]
                          ELSE NoEntry]
    /\ pc' = "menu"
    /\ UNCHANGED <<historyVars, ret, playerVars, cur, ctx, decision>>
    /\ UNCHANGED <<appConfig, discordRPC, log>>

\* The answer to the main menu.  'continue' calls continuePreviousWatch
\* with the last watched entry; 'history' calls showWatchHistory, which
\* returns on an empty history; 'clear-history' asks for a confirmation;
\* 'search' leads to the season selection or ends on the way; no answer
\* returns.
MainMenuChoice ==
    /\ pc = "menu"
    /\ \/ /\ "continue" \in menu.choices
          /\ menu' = ContinueMenu(menu.entry)
          /\ pc' = "continue"
       \/ /\ "history" \in menu.choices
          /\ pc' = IF Len(getWatchHistory(file, Num(HistoryListLimit)).val) = 0
                   THEN "done" ELSE "history"
          /\ menu' = [menu EXCEPT !.shown = "history", !.choices = {}]
       \/ /\ "clear-history" \in menu.choices
          /\ pc' = "confirm"
          /\ menu' = [menu EXCEPT !.shown = "confirm", !.choices = {}]
       \/ /\ "search" \in menu.choices
          /\ pc' \in {"select", "done"}
          /\ UNCHANGED menu
       \/ /\ pc' = "done"
          /\ UNCHANGED menu
    /\ UNCHANGED <<historyVars, ret, playerVars, cur, ctx, decision>>
    /\ UNCHANGED <<appConfig, discordRPC, log>>

\* The answer to showWatchHistory: an entry of the list, for which it calls
\* continuePreviousWatch, or none.
PickHistoryEntry ==
    /\ pc = "history"
    /\ \/ \E e \in Range(getWatchHistory(file, Num(HistoryListLimit)).val) :
             /\ menu' = ContinueMenu(e)
             /\ pc' = "continue"
       \/ /\ pc' = "done"
          /\ UNCHANGED menu
    /\ UNCHANGED <<historyVars, ret, playerVars, cur, ctx, decision>>
    /\ UNCHANGED <<appConfig, discordRPC, log>>

\* The answer to confirmClearHistory.
ConfirmClear ==
    /\ pc = "confirm"
    /\ \/ /\ file' = clearWatchHistory(file).file
          /\ lastOp' = [op |-> "clear", key |-> <<>>]
       \/ UNCHANGED <<file, lastOp>>
    /\ pc' = "done"
    /\ UNCHANGED <<clock, written, ret, playerVars, cur, ctx, decision>>
    /\ UNCHANGED <<appConfig, discordRPC, menu, log>>

\* The answer to continuePreviousWatch.  'resume', 'next' and 'rewatch'
\* fetch the episodes of the season and look for theirs: when it is there,
\* they call handleEpisodeSelection, 'resume' with the timePos of the
\* entry; when it is not, 'resume' returns and the others go to the season
\* selection, as 'choose' does.
ContinueChoice ==
    /\ pc = "continue"
    /\ \E listed \in BOOLEAN :
          LET episodes == getAnimeEpisodes(listed)
              n == menu.entry.episodeNumber
          IN  \/ /\ "resume" \in menu.choices
                 /\ IF n \in episodes
                    THEN /\ cur' = Episode(n, Num(menu.entry.timePos),
                                           "resume")
                         /\ pc' = "episode"
                    ELSE /\ pc' = "done"
                         /\ UNCHANGED cur
              \/ /\ "next" \in menu.choices
                 /\ IF n + 1 \in episodes
                    THEN /\ cur' = Episode(n + 1, Undefined, "next")
                         /\ pc' = "episode"
                    ELSE /\ pc' = "select"
                         /\ UNCHANGED cur
              \/ /\ "rewatch" \in menu.choices
                 /\ IF n \in episodes
                    THEN /\ cur' = Episode(n, Undefined, "rewatch")
                         /\ pc' = "episode"
                    ELSE /\ pc' = "select"
                         /\ UNCHANGED cur
              \/ /\ "choose" \in menu.choices
                 /\ pc' = "select"
                 /\ UNCHANGED cur
              \/ /\ pc' = "done"
                 /\ UNCHANGED cur
    /\ UNCHANGED <<historyVars, ret, playerVars, ctx, decision>>
    /\ UNCHANGED <<appConfig, discordRPC, menu, log>>

\* Properties in halves: 1152 s, 1224 s and 1296 s of 1440 s are 80 %,
\* 85 % and 90 %.
MainEvents == {"playing"}

MainTimes == {2 * 1152, 2 * 1224, 2 * 1296}

MainDurations == {2 * 1440}

MainLengths == {0}

MainPercents == {0}

MainCodes == {0}

Init ==
    /\ file \in {AbsentFile, RecordsFile(FillerRecs)}
    /\ written = NoWrites
    /\ clock = 0
    /\ ret = NoRet
    /\ lastOp = NoOp
    /\ NoPlayer
    /\ pc = "select"
    /\ cur = NoEpisode
    /\ ctx = NoContext
    /\ decision = NoDecision
    /\ appConfig = getConfig
    /\ discordRPC = NoPresence
    /\ menu = NoMenu
    /\ log = <<>>

Next ==
    \/ Tick
    \/ SelectEpisode
    \/ HandleEpisodeSelection
    \/ HandleVideoPlayback
    \/ ChoosePlay
    \/ ChooseCopy
    \/ ChooseOther
    \/ WriteProgress(MainEvents, MainTimes, MainDurations, MainLengths,
                     MainPercents)
    \/ PlayerShutdown(MainTimes, MainDurations, MainPercents)
    \/ PlayerKilled
    \/ PlayerClosed(MainCodes)
    \/ AfterPlayback

Spec == Init /\ [][Next]_vars

\* ------------------------------------------- the program from its menus
\* The records that earlier sessions of the one title leave: the initial
\* upsert alone, a session stopped half way, one stopped at 90 %, one
\* watched to the end, and one whose player never knew the duration.
MenuValues ==
    {<<0, 0, 0>>, <<50, 720, 1440>>, <<90, 1296, 1440>>,
     <<100, 1440, 1440>>, <<20, 300, 0>>}

MenuRecs(v) == <<Entry(EpisodeKey(1), "fs1", 0 - 1, v[1], v[2], v[3])>>

MenuFiles == {AbsentFile} \cup {RecordsFile(MenuRecs(v)) : v \in MenuValues}

\* What the player reads at its shutdown: 1296 s of 1440 s.
MenuTimes == {2 * 1296}

MenuDurations == {2 * 1440}

MenuPercents == {0}

MenuEvents == {"playing"}

MenuLengths == {0}

InitMenu ==
    /\ file \in MenuFiles
    /\ written = NoWrites
    /\ clock = 0
    /\ ret = NoRet
    /\ lastOp = NoOp
    /\ NoPlayer
    /\ pc = "start"
    /\ cur = NoEpisode
    /\ ctx = NoContext
    /\ decision = NoDecision
    /\ appConfig = getConfig
    /\ discordRPC = NoPresence
    /\ menu = NoMenu
    /\ log = <<>>

NextMenu ==
    \/ ShowMainMenu
    \/ MainMenuChoice
    \/ PickHistoryEntry
    \/ ConfirmClear
    \/ ContinueChoice
    \/ SelectEpisode
    \/ HandleEpisodeSelection
    \/ HandleVideoPlayback
    \/ ChoosePlay
    \/ ChooseCopy
    \/ ChooseOther
    \/ WriteProgress(MenuEvents, MenuTimes, MenuDurations, MenuLengths,
                     MenuPercents)
    \/ PlayerShutdown(MenuTimes, MenuDurations, MenuPercents)
    \/ PlayerKilled
    \/ PlayerClosed(ExitCodes)
    \/ AfterPlayback

SpecMenu == InitMenu /\ [][NextMenu]_vars

\* ------------------------------------ the program under a configuration
\* The values of an AppConfig in its two flags.  getConfig returns the
\* literal DEFAULT_CONFIG, so that a build with another literal is the
\* only program with another configuration.
Configs == [autoPlayNextEpisode : BOOLEAN, enableHistory : BOOLEAN]

InitConfig ==
    /\ file \in MenuFiles
    /\ written = NoWrites
    /\ clock = 0
    /\ ret = NoRet
    /\ lastOp = NoOp
    /\ NoPlayer
    /\ pc = "start"
    /\ cur = NoEpisode
    /\ ctx = NoContext
    /\ decision = NoDecision
    /\ appConfig \in Configs
    /\ discordRPC = NoPresence
    /\ menu = NoMenu
    /\ log = <<>>

SpecConfig == InitConfig /\ [][NextMenu]_vars

\* ------------------------------------ the main menu, on given stores
\* The program started without arguments over each of the stores of the
\* queries: the main menu, the history list and the clear confirmation.
InitStart ==
    /\ file \in QueryFiles
    /\ written = NoWrites
    /\ clock = 0
    /\ ret = NoRet
    /\ lastOp = NoOp
    /\ NoPlayer
    /\ pc = "start"
    /\ cur = NoEpisode
    /\ ctx = NoContext
    /\ decision = NoDecision
    /\ appConfig = getConfig
    /\ discordRPC = NoPresence
    /\ menu = NoMenu
    /\ log = <<>>

NextStart ==
    \/ ShowMainMenu
    \/ MainMenuChoice
    \/ PickHistoryEntry
    \/ ConfirmClear

SpecStart == InitStart /\ [][NextStart]_vars

\* ------------------------------- sessions that end near the thresholds
\* What the player reads: 1216 s, 1217 s, 1288 s and 1289 s of 1440 s,
\* which round to 84 %, 85 %, 89 % and 90 %.
ThresholdTimes == {2 * 1216, 2 * 1217, 2 * 1288, 2 * 1289}

InitThreshold ==
    /\ file = AbsentFile
    /\ written = NoWrites
    /\ clock = 0
    /\ ret = NoRet
    /\ lastOp = NoOp
    /\ NoPlayer
    /\ pc = "select"
    /\ cur = NoEpisode
    /\ ctx = NoContext
    /\ decision = NoDecision
    /\ appConfig = getConfig
    /\ discordRPC = NoPresence
    /\ menu = NoMenu
    /\ log = <<>>

NextThreshold ==
    \/ SelectEpisode
    \/ HandleEpisodeSelection
    \/ HandleVideoPlayback
    \/ ChoosePlay
    \/ WriteProgress(MainEvents, ThresholdTimes, MainDurations, MainLengths,
                     MainPercents)
    \/ PlayerShutdown(ThresholdTimes, MainDurations, MainPercents)
    \/ PlayerClosed(MainCodes)
    \/ AfterPlayback

SpecThreshold == InitThreshold /\ [][NextThreshold]_vars

\* ------------------------------------------- sessions that come to end
\* The sessions near the thresholds, with a player that may also be
\* killed.
NextChain ==
    \/ NextThreshold
    \/ PlayerKilled

\* The steps that are taken once they can be: the user answers each
\* prompt, the player process does not run for ever, and the awaits of
\* handleVideoPlayback return.  The exit of the player without a handler
\* can be taken whenever the player runs, and any exit of the player
\* disables it: the condition says no more than that the player exits.
\* The periodic write_progress of the script is not among the steps.
ChainStep ==
    \/ SelectEpisode
    \/ HandleEpisodeSelection
    \/ HandleVideoPlayback
    \/ ChoosePlay
    \/ PlayerKilled
    \/ AfterPlayback

\* The event loop delivers the 'close' of a child that has exited.  This
\* is WF_vars(PlayerClosed(MainCodes)) written out: the action is enabled
\* exactly while the child has exited and playVideo waits, and each of its
\* steps ends that.
CloseDelivered == []<>~(player = "exited" /\ pc = "playing")

ChainFairness == WF_vars(ChainStep) /\ CloseDelivered

SpecChain == InitThreshold /\ [][NextChain]_vars /\ ChainFairness

\* ------------------------------------------------ the presence client
\* config.enableDiscordRPC: getConfig returns the default, which is true.
enableDiscordRPC == TRUE

\* The frame of the presence client's steps.
PresenceOnly ==
    UNCHANGED <<historyVars, ret, playerVars,
                pc, cur, ctx, decision, appConfig, menu, log>>

\* connect(): nothing when presence is disabled or the client is
\* connected; else setupEventHandlers registers one more 'ready' and one
\* more 'disconnected' listener on the client, and a login is started.
Connect(r) ==
    IF ~enableDiscordRPC \/ r.connected THEN r
    ELSE [r EXCEPT !.listeners = @ + 1, !.logins = @ + 1]

\* The program calls discordRPC.connect() once, when it starts.
StartPresence ==
    /\ ~discordRPC.started
    /\ discordRPC' = Connect([discordRPC EXCEPT !.started = TRUE])
    /\ PresenceOnly

\* A login succeeds: the client emits 'ready' (every 'ready' listener sets
\* connected), and the then-branch of connect() resets connectionAttempts.
LoginSucceeds ==
    /\ discordRPC.logins > 0
    /\ discordRPC' = [discordRPC EXCEPT !.logins = @ - 1,
                                        !.connected = TRUE,
                                        !.connectionAttempts = 0]
    /\ PresenceOnly

\* A login fails: the catch-branch of connect() counts the attempt and sets
\* a timer for another connect() while the count is below the maximum.
LoginFails ==
    /\ discordRPC.logins > 0
    /\ LET attempts == discordRPC.connectionAttempts + 1
       IN  discordRPC' =
               [discordRPC EXCEPT
                   !.logins = @ - 1,
                   !.connected = FALSE,
                   !.connectionAttempts = attempts,
                   !.retries = IF attempts < maxConnectionAttempts
                               THEN @ + 1 ELSE @]
    /\ PresenceOnly

\* The client emits 'disconnected' after a connection: every registered
\* 'disconnected' listener clears connected and sets a timer of its own.
Disconnected ==
    /\ discordRPC.connected
    /\ Len(discordRPC.timers) < MaxDisconnects
    /\ discordRPC' = [discordRPC EXCEPT
                         !.connected = FALSE,
                         !.timers = Append(@, discordRPC.listeners),
                         !.calls = Append(@, 0)]
    /\ PresenceOnly

\* A timer of the catch-branch fires: connect().
RetryTimer ==
    /\ discordRPC.retries > 0
    /\ discordRPC.listeners < MaxListeners
    /\ discordRPC' = Connect([discordRPC EXCEPT !.retries = @ - 1])
    /\ PresenceOnly

\* A timer of a 'disconnected' listener fires: connect() while the count of
\* attempts is below the maximum.
ReconnectTimer ==
    /\ discordRPC.listeners < MaxListeners
    /\ \E e \in DOMAIN discordRPC.timers :
          /\ discordRPC.timers[e] > 0
          /\ discordRPC' =
                 IF discordRPC.connectionAttempts < maxConnectionAttempts
                 THEN Connect([discordRPC EXCEPT !.timers[e] = @ - 1,
                                                 !.calls[e] = @ + 1])
                 ELSE [discordRPC EXCEPT !.timers[e] = @ - 1]
    /\ PresenceOnly

InitPresence ==
    /\ file = AbsentFile
    /\ written = NoWrites
    /\ clock = 0
    /\ ret = NoRet
    /\ lastOp = NoOp
    /\ NoPlayer
    /\ NoCli

NextPresence ==
    \/ StartPresence
    \/ LoginSucceeds
    \/ LoginFails
    \/ Disconnected
    \/ RetryTimer
    \/ ReconnectTimer

SpecPresence == InitPresence /\ [][NextPresence]_vars

\* ============================================================ claims
Recs == IF file.kind = "records" THEN file.recs ELSE <<>>

HasKey(key) == \E i \in DOMAIN Recs : KeyOf(Recs[i]) = key

\* C1: after any sequence of saveWatchHistory calls, player-script history
\* updates and clears, the store holds one record per key, every record
\* carries the field values of the last write of its key (a record never
\* written is as it was at the start), and the key written last is there.
StoreOnePerKeyLastWrite ==
    /\ \A i, j \in DOMAIN Recs : KeyOf(Recs[i]) = KeyOf(Recs[j]) => i = j
    /\ \A i \in DOMAIN Recs :
          IF KeyOf(Recs[i]) \in DOMAIN written
          THEN \A fld \in DOMAIN written[KeyOf(Recs[i])] :
                  Recs[i][fld] = written[KeyOf(Recs[i])][fld]
          ELSE Recs[i] \in Range(FillerRecs)
    /\ lastOp.op \in {"save", "lua"} =>
          file.kind = "records" /\ HasKey(lastOp.key)

\* A key saved first and then updated in place by the player script: its
\* record stays behind a record of another key and has the script's values.
WitnessOnePerKey ==
    /\ lastOp = [op |-> "lua", key |-> <<"a", 1, 1>>]
    /\ Len(Recs) = 2
    /\ KeyOf(Recs[2]) = <<"a", 1, 1>>
    /\ Recs[2].fansubName = "fs2"
    /\ Recs[2].progress = 50
    /\ Recs[2].watchedAt = LuaStamp(MaxClock)

\* C4: clear() never throws and leaves the store absent, so that list() is
\* empty; on an absent store it changes nothing (a second clear is a no-op).
ClearIdempotent ==
    [][ret'.op = "clear" =>
          /\ ~ret'.threw
          /\ file' = AbsentFile
          /\ getWatchHistory(file', Undefined).val = <<>>
          /\ (file = AbsentFile => file' = file)]_vars

\* A store that was written and then cleared.
WitnessCleared ==
    /\ ret.op = "clear"
    /\ file = AbsentFile
    /\ DOMAIN written # {}

\* C3: the suggestions are the first SuggestionCap of: per animeId its
\* newest record, newest first.
NewestOf(animeId) ==
    CHOOSE w \in {r.watchedAt : r \in {x \in Range(Recs) : x.animeId = animeId}} :
        \A r \in Range(Recs) : r.animeId = animeId => r.watchedAt <= w

SuggestionsNewestPerAnime ==
    ret.op = "suggestions" =>
        LET s == ret.val
            animes == {r.animeId : r \in Range(Recs)}
        IN  /\ ~ret.threw
            /\ Len(s) = Min(SuggestionCap, Cardinality(animes))
            /\ \A i \in DOMAIN s :
                  /\ s[i] \in Range(Recs)
                  /\ s[i].watchedAt = NewestOf(s[i].animeId)
            /\ \A i, j \in DOMAIN s :
                  i < j => /\ s[i].animeId # s[j].animeId
                           /\ s[i].watchedAt >= s[j].watchedAt
            /\ \A a \in animes \ {s[i].animeId : i \in DOMAIN s} :
                  \A i \in DOMAIN s : NewestOf(a) <= s[i].watchedAt

\* Suggestions cut to the cap, from a full store that is not in newest-first
\* file order and has several records per animeId.
WitnessSuggestions ==
    /\ ret.op = "suggestions"
    /\ Len(ret.val) = SuggestionCap
    /\ Len(Recs) = HistoryCap
    /\ \E i \in 1..(Len(Recs) - 1) : Recs[i].watchedAt < Recs[i + 1].watchedAt
    /\ ret.val[1].episodeNumber > 1

ListTruncatesToEveryGivenLimit ==
    (ret.op = "list" /\ file.kind = "records") =>
        /\ Len(ret.val) = IF ret.arg.given
                          THEN Min(ret.arg.n, Len(Recs))
                          ELSE Len(Recs)
        /\ \A i \in DOMAIN ret.val : ret.val[i] \in Range(Recs)
        /\ \A i, j \in DOMAIN ret.val :
              i < j => /\ ret.val[i] # ret.val[j]
                       /\ ret.val[i].watchedAt >= ret.val[j].watchedAt
        /\ \A r \in Range(Recs) \ Range(ret.val) :
              \A i \in DOMAIN ret.val : r.watchedAt <= ret.val[i].watchedAt

\* C2: in every reachable state, also while the player script writes the
\* history file, the history file holds at most 50 records.
StoreWithinCap == Len(Recs) <= 50

\* C7: when the snapshot read at the close of the player has time_pos > 0
\* and duration > 0, the returned progress is 100 * timePos / duration of
\* the returned values, rounded to the nearest whole number (a half
\* upwards), whatever percent_pos says.
ResultIsRoundedRatio ==
    (pc = "played" /\ snap.kind = "snapshot"
     /\ snap.time_pos > 0 /\ snap.duration > 0) =>
        result.progress =
            (200 * result.timePos + result.duration) \div (2 * result.duration)

\* C8: a snapshot that write_progress writes when neither "duration" nor
\* "length" is known and the time is positive has percent_pos =
\* min(floor(100 * time / 1440), 99), below 100, and estimated = true, and
\* is not final.  (live.time_pos counts halves of a second.)
EstimateWithoutDuration ==
    (live.event = "write" /\ live.duration = 0 /\ live.length = 0
     /\ live.time_pos > 0) =>
        /\ snap.kind = "snapshot"
        /\ snap.percent_pos = Min((100 * live.time_pos) \div (2 * 1440), 99)
        /\ snap.percent_pos < 100
        /\ snap.estimated
        /\ snap.status # "finished"

\* An estimate that the cap cuts: 1500 s of an assumed 1440 s.
WitnessEstimateCapped ==
    /\ live.event = "write"
    /\ live.duration = 0
    /\ live.length = 0
    /\ live.time_pos = 2 * 1500
    /\ snap.percent_pos = 99
    /\ snap.estimated

\* C9: when the shutdown handler reads a zero time or a zero duration and
\* the progress file holds a snapshot, the final snapshot's time_pos and
\* duration are each the larger of the live value (in whole seconds) and
\* the value of that snapshot.
FinalKeepsMaximum ==
    [][(player = "running" /\ player' = "exited" /\ live'.event = "shutdown"
        /\ (live'.time_pos = 0 \/ live'.duration = 0)
        /\ snap.kind = "snapshot") =>
           /\ snap'.status = "finished"
           /\ snap'.time_pos = Max(Floor(live'.time_pos), snap.time_pos)
           /\ snap'.duration = Max(Floor(live'.duration), snap.duration)]_vars

\* Live 0 / 0 at shutdown, and the final snapshot is 600 / 1440.
WitnessFinalFromPrior ==
    /\ player = "exited"
    /\ live.event = "shutdown"
    /\ live.time_pos = 0
    /\ live.duration = 0
    /\ snap = Snapshot(600, 1440, 41, "finished", FALSE)

\* C10, as stated: after a session the CLI goes on to the next episode
\* exactly when autoPlayNextEpisode is set, the progress of the result is
\* at least 85, and the season has a next episode.
Advances == pc' = "episode" /\ cur'.episode = cur.episode + 1

AutoAdvanceWithoutPrompt == cur.via = "auto" => pc # "prompt"

\* C12, as stated: every playback session performs exactly two upserts of
\* the CLI for the played episode, one with progress 0 that completes
\* before the player is launched and one with the result of the session
\* after the player has exited; no session performs fewer or more.
SessionUpsertsTwice ==
    /\ pc \in {"playing", "played"} =>
           Len(log) = 1 /\ log[1].wrote /\ log[1].progress = 0
    /\ (log # <<>> /\ log[Len(log)].at = "played") =>
           Len(log) = 2 /\ log[1].wrote /\ log[2].wrote

\* C12, amended: every playback session makes exactly two saveToHistory
\* calls for the played episode, the first with progress 0, timePos 0 and
\* duration 0 before playVideo is called, the second with the result of
\* playVideo (progress clamped to 0..100) after it has returned, and none
\* while the player runs; a call that writes leaves the entry it was
\* called for at the head of the store, and a call that does not write
\* (one of its two fetches failed) leaves the store as it was.
SessionSavesTwice ==
    [][/\ (pc = "prompt" /\ pc' \in {"playing", "played"}) =>
              /\ log' = <<SaveCall(0, 0, 0, log'[1].wrote, "prompt")>>
              /\ IF log'[1].wrote
                 THEN /\ file'.kind = "records"
                      /\ Head(file'.recs)
                           = Entry(EpisodeKey(cur.episode), cur.fansub,
                                   clock, 0, 0, 0)
                 ELSE file' = file
       /\ pc = "playing" => log' = log
       /\ pc = "played" =>
              /\ player = "none"
              /\ log' = <<log[1],
                          SaveCall(result.progress, result.timePos,
                                   result.duration, log'[2].wrote, "played")>>
              /\ IF log'[2].wrote
                 THEN /\ file'.kind = "records"
                      /\ Head(file'.recs)
                           = Entry(EpisodeKey(cur.episode), cur.fansub,
                                   clock, Max(0, Min(100, result.progress)),
                                   result.timePos, result.duration)
                 ELSE file' = file]_vars

\* A session has ended at 85 % and both of its calls wrote.
WitnessSessionSavedTwice ==
    /\ pc = "done"
    /\ Len(log) = 2
    /\ log[1].wrote
    /\ log[2].wrote
    /\ log[2].progress = 85
    /\ Recs[1].progress = 85

ExitCodeKeepsSnapshot ==
    (pc = "played" /\ call.outcome \notin {"unavailable", "error"}) =>
        /\ call.outcome = "closed"
        /\ call.code \in ExitCodes
        /\ player = "none"
        /\ IF snap.kind = "snapshot"
           THEN /\ result.timePos = snap.time_pos
                /\ result.duration = snap.duration
                /\ result.progress = ReadResult(snap).progress
           ELSE result = ZeroResult

\* The child closed with a code other than 0 and playVideo returned the
\* 600 s of 1440 s of the snapshot.
WitnessResultAfterFailure ==
    /\ pc = "played"
    /\ call.outcome = "closed"
    /\ call.code # 0
    /\ result = [progress |-> 42, timePos |-> 600, duration |-> 1440]

\* C15: when playVideo finds no player, it returns progress 0, timePos 0
\* and duration 0 at once, without starting a child and without looking
\* at the progress file, and handleVideoPlayback goes on: it makes its
\* final saveToHistory call with that result and returns.
UnavailableReturnsZero ==
    [][/\ (pc = "prompt" /\ call'.outcome = "unavailable") =>
              /\ pc' = "played"
              /\ result'.progress = 0
              /\ result'.timePos = 0
              /\ result'.duration = 0
              /\ player = "none" /\ player' = "none"
              /\ ~call'.ran
              /\ call'.reads = 0
              /\ snap' = snap
       /\ (pc = "played" /\ call.outcome = "unavailable") =>
              /\ pc' = "done"
              /\ Len(log') = 2
              /\ log'[2].progress = 0
              /\ log'[2].timePos = 0
              /\ log'[2].duration = 0]_vars

\* playVideo found no player and returned; the progress file holds the
\* snapshot of an earlier session.
WitnessUnavailable ==
    /\ pc = "played"
    /\ call.outcome = "unavailable"
    /\ snap.kind = "snapshot"
    /\ snap.time_pos = 1296
    /\ result.progress = 0

\* C16: when the child fails to start after the check for a player has
\* passed, playVideo returns progress 0, timePos 0 and duration 0.
StartFailureReturnsZero ==
    (pc = "played" /\ call.outcome \in {"error", "closed"} /\ ~call.ran) =>
        /\ result.progress = 0
        /\ result.timePos = 0
        /\ result.duration = 0

\* C17: in every playback session with a player process, playVideo looks
\* at the progress file exactly once, after the process has terminated,
\* and never while the process is alive.
SnapshotReadOnceAfterExit ==
    /\ call.reads <= 1
    /\ player = "running" => call.reads = 0
    /\ pc = "playing" => call.reads = 0
    /\ (pc = "played" /\ call.outcome = "closed") =>
           call.reads = 1 /\ player = "none"

\* A player ran to 90 % and closed, and playVideo has read the progress
\* file once.
WitnessReadOnce ==
    /\ pc = "played"
    /\ call.outcome = "closed"
    /\ call.ran
    /\ call.reads = 1
    /\ result.progress = 90

StartOffsetOnlyOnResume ==
    (pc \in {"playing", "played"} /\ call.outcome \in {"waiting", "closed"}) =>
        call.start = IF cur.via = "resume"
                     THEN Num(menu.entry.timePos)
                     ELSE Undefined

\* A player runs that was started by 'resume' of a record at 720 s, with
\* --start=720.
WitnessResumedAtOffset ==
    /\ player = "running"
    /\ cur.via = "resume"
    /\ menu.entry.timePos = 720
    /\ call.start = Num(720)

\* A player runs that was started by auto-advance after a resumed session.
WitnessAdvancedWithoutOffset ==
    /\ player = "running"
    /\ cur.via = "auto"
    /\ menu.entry.timePos = 720
    /\ call.start = Undefined

\* C20: when saveWatchHistory stores an entry with a new key in a store
\* that holds 50 records, exactly one prior record is removed, and that
\* is one with the smallest watchedAt among all 51 candidates; the 50
\* with the greatest watchedAt are retained.
EvictsOldestAtCap ==
    [][(/\ lastOp'.op = "save"
        /\ Len(Recs) = HistoryCap
        /\ ~HasKey(lastOp'.key)) =>
           LET before == Range(Recs)
               after == Range(file'.recs)
               new == CHOOSE r \in after : KeyOf(r) = lastOp'.key
               gone == before \ after
           IN  /\ Len(file'.recs) = HistoryCap
               /\ Cardinality(after) = HistoryCap
               /\ Cardinality(gone) = 1
               /\ after = (before \ gone) \cup {new}
               /\ \A r \in gone : \A s \in before \cup {new} :
                      r.watchedAt <= s.watchedAt]_vars

\* The script has restamped the last record of a full file, and a
\* saveWatchHistory of a new key has then removed the record before it.
WitnessEvictedOldest ==
    /\ lastOp = [op |-> "save", key |-> <<"a", 1, 1>>]
    /\ Len(Recs) = HistoryCap
    /\ HasKey(<<"a", 1, 1>>)
    /\ HasKey(FillerKey(HistoryCap))
    /\ ~HasKey(FillerKey(HistoryCap - 1))
    /\ \A i \in 1..(HistoryCap - 2) : HasKey(FillerKey(i))

\* C21: within one playback session, the snapshot with status "finished"
\* never reports a time_pos smaller than that of the last snapshot the
\* session wrote before it, whatever the player reports: the shutdown
\* handler that follows a write_progress of the session does not lower
\* time_pos.
FinishedNotBehind ==
    [][(player = "running" /\ player' = "exited"
        /\ live.event = "write" /\ live'.event = "shutdown") =>
           /\ snap'.status = "finished"
           /\ snap'.time_pos >= snap.time_pos]_vars

\* C22: within one playback session, once a snapshot has been written with
\* a positive duration, every later snapshot of the session has estimated
\* = false, whatever the player reports afterwards: a snapshot that
\* follows one of the session with a positive duration is not estimated.
EstimatedStaysFalse ==
    [][(player = "running" /\ live.event = "write" /\ snap.duration > 0
        /\ live'.event \in {"write", "shutdown"}) =>
           ~snap'.estimated]_vars

\* C23: the result of playVideo comes from the snapshots of the session's
\* own player alone: when that player has written no snapshot, the result
\* has timePos 0 and progress 0, whatever an earlier session left in the
\* progress file.
ResultFromOwnSnapshots ==
    (pc = "played" /\ call.outcome = "closed" /\ live.event = "none") =>
        /\ result.timePos = 0
        /\ result.progress = 0

\* C24: when the progress file is missing or does not parse at the time
\* the 'close' handler reads it, a file torn by an interrupted write
\* included, playVideo returns progress 0, timePos 0 and duration 0, and
\* it does return.
UnreadableSnapshotIsZero ==
    (pc = "played" /\ snap.kind # "snapshot"
     /\ call.outcome \notin {"unavailable", "error"}) =>
        /\ call.outcome = "closed"
        /\ player = "none"
        /\ result.progress = 0
        /\ result.timePos = 0
        /\ result.duration = 0

\* The player wrote a snapshot at 600 s and was killed in a later write;
\* playVideo has returned.
WitnessTornSnapshot ==
    /\ pc = "played"
    /\ call.outcome = "closed"
    /\ snap = UnparseableSnap
    /\ live.event = "killed"
    /\ live.time_pos = 2 * 600
    /\ result.timePos = 0

\* C25: if playVideo returns the zero result for an attempt because no
\* player was found or the child could not be started, the record that
\* the store held for the episode before the attempt still has its
\* timePos, duration and progress: after 'resume' of a record, the record
\* of the episode has the values the continue menu showed.
ZeroResultKeepsRecord ==
    (pc = "played" /\ call.outcome \in {"unavailable", "error"}
     /\ cur.via = "resume") =>
        \E i \in DOMAIN Recs :
            /\ KeyOf(Recs[i]) = KeyOf(menu.entry)
            /\ Recs[i].progress = menu.entry.progress
            /\ Recs[i].timePos = menu.entry.timePos
            /\ Recs[i].duration = menu.entry.duration

\* C26: whenever the lookup of episode N+1 in the episode list of the
\* season finds nothing, after a session that is to auto-advance as well
\* as after 'next' in the continue menu, the CLI goes to the season
\* selection; and the lookup matches no episode but N+1.
LookupFailureGoesToSelection ==
    [][/\ (pc = "played" /\ ShouldAdvance(appConfig, result, ctx)
           /\ pc' # "episode") => pc' = "select"
       /\ (pc = "played" /\ pc' = "episode") =>
              cur'.episode = cur.episode + 1
       /\ (pc = "continue" /\ pc' = "episode" /\ cur'.via = "next") =>
              cur'.episode = menu.entry.episodeNumber + 1]_vars

\* C27: when the interrupt signal arrives while the CLI waits for the
\* player, the CLI attempts to store the known progress of the running
\* session in the history before it terminates: its termination from the
\* wait comes with a saveToHistory call.
InterruptSavesProgress ==
    [][(pc = "playing" /\ pc' = "terminated") =>
           /\ Len(log') = Len(log) + 1
           /\ log'[Len(log')].timePos = ReadResult(snap).timePos]_vars

\* C28: in interactive mode (the program was started at its main menu), a
\* playback session that does not auto-advance is followed by the main
\* menu again: the flow does not end by itself.
MenuAgainAfterSession ==
    [][(pc = "played" /\ menu.shown # "none" /\ pc' # "episode") =>
           pc' \in {"start", "menu"}]_vars

\* C29: only the CLI process writes the history file: while a session's
\* player runs, no step of the player creates or changes the file.
PlayerNeverWritesHistory ==
    [][(player = "running" /\ pc = "playing") => file' = file]_vars

\* C30: no write of the history file by the CLI (the save before the
\* playback, the save after it, the clear) falls between the start and
\* the exit of a player: every change of the file that is not the player
\* script's is made while no player process exists.
CliWritesOutsidePlayback ==
    [][(file' # file /\ lastOp'.op # "lua") =>
           /\ player = "none"
           /\ pc \in {"prompt", "played", "confirm"}
           /\ lastOp'.op \in {"save", "clear"}]_vars

\* A session whose player wrote a snapshot and then shut down at 1296 s:
\* the CLI saved before the start of the player and again after its exit.
WitnessCliWroteAroundPlayer ==
    /\ pc = "done"
    /\ player = "none"
    /\ live.event = "shutdown"
    /\ Len(log) = 2
    /\ log[1].wrote
    /\ log[2].wrote
    /\ lastOp.op = "save"
    /\ snap.time_pos = 1296
    /\ Recs[1].timePos = 1296

\* C31: a process killed during the write of an upsert leaves the history
\* file holding the whole collection of before the upsert or the whole
\* collection of after it, never a torn or empty file.
KilledUpsertIsAtomic ==
    [][lastOp'.op \in {"savekilled", "luakilled"} =>
          \/ file' = file
          \/ /\ lastOp'.op = "savekilled"
             /\ \E fs \in HistoryFansubs, v \in HistoryValues :
                   file' = saveWatchHistory(
                               file, Entry(lastOp'.key, fs, clock,
                                           v[1], v[2], v[3]))
          \/ /\ lastOp'.op = "luakilled"
             /\ \E fs \in HistoryFansubs, v \in HistoryValues :
                   file' = update_history(file, ScriptOpts(lastOp'.key, fs),
                                          v[2], v[3], v[1], clock)]_vars

\* C32: the main menu offers 'search' alone when the store is absent or
\* holds no record, and 'continue', 'history', 'clear-history' and 'search'
\* when the store holds a record; the entry of 'continue' is a record
\* of the store that no record is newer than.
MainMenuFollowsStore ==
    pc = "menu" =>
        /\ menu.shown = "main"
        /\ menu.choices =
               IF Len(Recs) > 0
               THEN {"continue", "history", "clear-history", "search"}
               ELSE {"search"}
        /\ Len(Recs) > 0 =>
               /\ menu.entry \in Range(Recs)
               /\ \A r \in Range(Recs) : r.watchedAt <= menu.entry.watchedAt

\* The main menu over a store of three records whose newest is the last
\* in the file.
WitnessMainMenuWithHistory ==
    /\ pc = "menu"
    /\ Len(Recs) = 3
    /\ Recs[1].watchedAt < Recs[3].watchedAt
    /\ Recs[2].watchedAt < Recs[3].watchedAt
    /\ menu.entry = Recs[3]
    /\ "continue" \in menu.choices

\* C33: in every reachable state, every record of the store with a
\* positive timePos and a positive duration has
\* progress = round(100 * timePos / duration), halves rounded up.
ProgressIsRoundedRatio ==
    \A i \in DOMAIN Recs :
        (Recs[i].timePos > 0 /\ Recs[i].duration > 0) =>
            Recs[i].progress =
                (200 * Recs[i].timePos + Recs[i].duration)
                    \div (2 * Recs[i].duration)

OthersIn(f, key) ==
    {r \in Range(IF f.kind = "records" THEN f.recs ELSE <<>>) :
        KeyOf(r) # key}

OnlyPlayWritesHistory ==
    [][(pc = "prompt" /\ pc' = "done") => file' = file]_vars

\* The record of an episode in a file.
RecordOf(f, n) ==
    CHOOSE r \in Range(f.recs) : KeyOf(r) = EpisodeKey(n)

ResultWithinRange ==
    call.outcome = "closed" =>
        /\ result.progress \in 0..100
        /\ result.duration > 0 => result.timePos <= result.duration

\* C40: the timers of one 'disconnected' event make one connect() call at
\* most; no retry timer is set, and no timer of a 'disconnected' event
\* calls connect(), once connectionAttempts has reached
\* maxConnectionAttempts.
ReconnectionBounded ==
    [][/\ \A e \in DOMAIN discordRPC'.calls : discordRPC'.calls[e] <= 1
       /\ discordRPC.connectionAttempts >= maxConnectionAttempts =>
              /\ discordRPC'.retries <= discordRPC.retries
              /\ discordRPC'.calls = discordRPC.calls
                     \/ Len(discordRPC'.calls) > Len(discordRPC.calls)]_vars

====
